---- MODULE Spec2Model ----
(***************************************************************************)
(* A model of the payroll record-keeper in src/app.py: the payroll         *)
(* calculator, the year-to-date aggregator and the employee and payslip    *)
(* request handlers running over one shared record store.                  *)
(*                                                                         *)
(* Numbers.  Python floats are modelled as decimal fixed-point numbers     *)
(* counted in hundredths (cents).  The amounts drawn as inputs are         *)
(* multiples of 0.25 and the hours are whole, so that every product the    *)
(* calculator forms (hours * rate, taxable * 0.28) is exact in this        *)
(* representation; inf and nan are not drawn.                              *)
(*                                                                         *)
(* Text.  A form value is a sequence of one-character strings; a form is   *)
(* a function from the names of the fields present in the request to       *)
(* their texts.  A date is a tuple <<year, month, day>>; the empty tuple   *)
(* is Python's None for a date column.                                     *)
(***************************************************************************)
EXTENDS Integers, Sequences, FiniteSets, TLC

VARIABLES
    today,      \* date.today() as seen by Employee.age
    employees,  \* table employee: id -> row
    payslips,   \* table payslip: sequence of rows, the id is the index
    now,        \* datetime.utcnow(), a logical clock
    pc,         \* per request thread: "idle", "loaded" or "dirty"
    req,        \* per request thread: the request being (or last) served
    sess,       \* per request thread: the row held by its db.session
    res,        \* per request thread: the response to its last request
    overlap,    \* per request thread: edits others committed to its row meanwhile
    nreq,       \* number of requests accepted so far
    calc,       \* inputs and outputs of one compute_payroll call
    ytdq        \* inputs and outputs of one ytd_for_employee call

vars == <<today, employees, payslips, now, pc, req, sess, res, overlap, nreq, calc, ytdq>>

-----------------------------------------------------------------------------
(* Dates *)

NoDate == <<>>

IsLeap(y) == (y % 4 = 0) /\ ((y % 100 # 0) \/ (y % 400 = 0))

DaysInMonth(y, m) ==
    IF m = 2 THEN (IF IsLeap(y) THEN 29 ELSE 28)
    ELSE IF m \in {4, 6, 9, 11} THEN 30 ELSE 31

\* the constructor datetime.date(y, m, d) accepts exactly these
ValidDate(y, m, d) ==
    /\ y >= 1 /\ y <= 9999
    /\ m >= 1 /\ m <= 12
    /\ d >= 1 /\ d <= DaysInMonth(y, m)

\* a < b on (month, day) pairs, as Python compares tuples
PairLT(a, b) == (a[1] < b[1]) \/ (a[1] = b[1] /\ a[2] < b[2])

\* a <= b on dates
DateLE(a, b) ==
    \/ a[1] < b[1]
    \/ (a[1] = b[1] /\ a[2] < b[2])
    \/ (a[1] = b[1] /\ a[2] = b[2] /\ a[3] <= b[3])

-----------------------------------------------------------------------------
(* Text *)

Digits == {"0", "1", "2", "3", "4", "5", "6", "7", "8", "9"}

DigitVal(c) ==
    CASE c = "0" -> 0 [] c = "1" -> 1 [] c = "2" -> 2 [] c = "3" -> 3
      [] c = "4" -> 4 [] c = "5" -> 5 [] c = "6" -> 6 [] c = "7" -> 7
      [] c = "8" -> 8 [] c = "9" -> 9

IsDigits(s) == \A i \in 1..Len(s) : s[i] \in Digits

RECURSIVE DigitsVal(_)
DigitsVal(s) ==
    IF s = <<>> THEN 0
    ELSE DigitsVal(SubSeq(s, 1, Len(s) - 1)) * 10 + DigitVal(s[Len(s)])

Failed == [ok |-> FALSE]

\* float(text) for a decimal literal: [sign] digits [. digits], in cents.
\* Any other text raises ValueError (ok = FALSE).
ParseFloatText(s) ==
    LET signed == Len(s) > 0 /\ s[1] \in {"-", "+"}
        body   == IF signed THEN Tail(s) ELSE s
        dots   == {i \in 1..Len(body) : body[i] = "."}
        dot    == IF dots = {} THEN Len(body) + 1 ELSE CHOOSE i \in dots : TRUE
        ip     == SubSeq(body, 1, dot - 1)
        fp     == SubSeq(body, dot + 1, Len(body))
        fp2    == SubSeq(fp \o <<"0", "0">>, 1, 2)
        mag    == DigitsVal(ip) * 100 + DigitsVal(fp2)
    IN  IF /\ Cardinality(dots) <= 1
           /\ IsDigits(ip) /\ IsDigits(fp)
           /\ Len(ip) + Len(fp) >= 1
        THEN [ok |-> TRUE, val |-> IF signed /\ s[1] = "-" THEN 0 - mag ELSE mag]
        ELSE Failed

\* date.fromisoformat with a day past the month's end clamped to the last day
fromisoformat_clamp(s) ==
    IF /\ Len(s) = 10
       /\ s[5] = "-" /\ s[8] = "-"
       /\ IsDigits(SubSeq(s, 1, 4)) /\ IsDigits(SubSeq(s, 6, 7)) /\ IsDigits(SubSeq(s, 9, 10))
    THEN LET y == DigitsVal(SubSeq(s, 1, 4))
             m == DigitsVal(SubSeq(s, 6, 7))
             d == DigitsVal(SubSeq(s, 9, 10))
         IN  IF ValidDate(y, m, d) THEN [ok |-> TRUE, val |-> <<y, m, d>>]
             ELSE IF ValidDate(y, m, 1) /\ d >= 1
             THEN [ok |-> TRUE, val |-> <<y, m, DaysInMonth(y, m)>>]
             ELSE Failed
    ELSE Failed

\* date.fromisoformat(text): YYYY-MM-DD, then the date constructor's range check
fromisoformat(s) ==
    IF /\ Len(s) = 10
       /\ s[5] = "-" /\ s[8] = "-"
       /\ IsDigits(SubSeq(s, 1, 4)) /\ IsDigits(SubSeq(s, 6, 7)) /\ IsDigits(SubSeq(s, 9, 10))
    THEN LET y == DigitsVal(SubSeq(s, 1, 4))
             m == DigitsVal(SubSeq(s, 6, 7))
             d == DigitsVal(SubSeq(s, 9, 10))
         IN  IF ValidDate(y, m, d) THEN [ok |-> TRUE, val |-> <<y, m, d>>] ELSE Failed
    ELSE Failed

\* datetime.strptime(text, "%Y-%m-%d").date(): four digits of year, one or two
\* of month and of day, then the range check
strptime(s) ==
    LET dashes == {i \in 1..Len(s) : s[i] = "-"}
    IN  IF Cardinality(dashes) # 2 THEN Failed
        ELSE LET d1 == CHOOSE i \in dashes : \A j \in dashes : i <= j
                 d2 == CHOOSE i \in dashes : \A j \in dashes : j <= i
                 ys == SubSeq(s, 1, d1 - 1)
                 ms == SubSeq(s, d1 + 1, d2 - 1)
                 ds == SubSeq(s, d2 + 1, Len(s))
             IN  IF /\ IsDigits(ys) /\ IsDigits(ms) /\ IsDigits(ds)
                    /\ Len(ys) = 4 /\ Len(ms) \in {1, 2} /\ Len(ds) \in {1, 2}
                    /\ ValidDate(DigitsVal(ys), DigitsVal(ms), DigitsVal(ds))
                 THEN [ok |-> TRUE, val |-> <<DigitsVal(ys), DigitsVal(ms), DigitsVal(ds)>>]
                 ELSE Failed

-----------------------------------------------------------------------------
(* Payroll calculator *)

Money(units) == units * 100

NisAgeLimit == 60
NisRatePerMille == 56
TaxRatePercent == 28
TaxThreshold == Money(130000)

\* a * b for two fixed-point numbers
Mul(a, b) == (a * b) \div 100

\* round(n / d) to the nearest integer, ties to the even one, as Python's round
RoundHalfEven(n, d) ==
    LET q == n \div d
        r == n % d
    IN  IF 2 * r < d THEN q
        ELSE IF 2 * r > d THEN q + 1
        ELSE IF q % 2 = 0 THEN q ELSE q + 1

\* Employee.age without the birthday correction
age_years_only(e) ==
    IF e.date_of_birth # NoDate THEN today[1] - e.date_of_birth[1] ELSE -1

\* Employee.age; -1 stands for None (see AgeKnown)
age(e) ==
    IF e.date_of_birth # NoDate
    THEN today[1] - e.date_of_birth[1]
         - (IF PairLT(<<today[2], today[3]>>, <<e.date_of_birth[2], e.date_of_birth[3]>>)
            THEN 1 ELSE 0)
    ELSE -1

\* employee.age is not None
AgeKnown(e) == e.date_of_birth # NoDate

\* compute_payroll with the threshold test taxing the whole gross
compute_payroll_flat(employee, basic, overtime, allowances, hours_worked, rate_per_hour) ==
    LET hourly_total == Mul(hours_worked, rate_per_hour)
        gross == basic + overtime + allowances + hourly_total
        nis   == IF AgeKnown(employee) /\ age(employee) < NisAgeLimit
                 THEN RoundHalfEven(gross * NisRatePerMille, 1000) ELSE 0
        tax   == IF gross > TaxThreshold THEN (gross * TaxRatePercent) \div 100 ELSE 0
    IN  [gross |-> gross, nis |-> nis, tax |-> tax, net |-> gross - (nis + tax)]

\* compute_payroll with net floored at zero
compute_payroll_floor(employee, basic, overtime, allowances, hours_worked, rate_per_hour) ==
    LET hourly_total == Mul(hours_worked, rate_per_hour)
        gross == basic + overtime + allowances + hourly_total
        nis   == IF AgeKnown(employee) /\ age(employee) < NisAgeLimit
                 THEN RoundHalfEven(gross * NisRatePerMille, 1000) ELSE 0
        tax   == IF gross > TaxThreshold
                 THEN ((gross - TaxThreshold) * TaxRatePercent) \div 100 ELSE 0
        net   == gross - (nis + tax)
    IN  [gross |-> gross, nis |-> nis, tax |-> tax, net |-> IF net < 0 THEN 0 ELSE net]

compute_payroll(employee, basic, overtime, allowances, hours_worked, rate_per_hour) ==
    LET hourly_total == Mul(hours_worked, rate_per_hour)
        gross == basic + overtime + allowances + hourly_total
        nis   == IF AgeKnown(employee) /\ age(employee) < NisAgeLimit
                 THEN RoundHalfEven(gross * NisRatePerMille, 1000) ELSE 0
        tax   == IF gross > TaxThreshold
                 THEN ((gross - TaxThreshold) * TaxRatePercent) \div 100 ELSE 0
        net   == gross - (nis + tax)
    IN  [gross |-> gross, nis |-> nis, tax |-> tax, net |-> net]

-----------------------------------------------------------------------------
(* Record store and request threads: values shared by all specifications *)

Workers == {1, 2}

NoRow == [none |-> TRUE]
NoReq == [op |-> "none"]
NoRes == [status |-> "none"]

NoCalc == [done |-> FALSE]
NoYtd  == [done |-> FALSE]

IdleThreads ==
    /\ pc = [w \in Workers |-> "idle"]
    /\ req = [w \in Workers |-> NoReq]
    /\ sess = [w \in Workers |-> NoRow]
    /\ res = [w \in Workers |-> NoRes]
    /\ overlap = [w \in Workers |-> <<>>]
    /\ nreq = 0

threadVars == <<pc, req, sess, res, overlap, nreq>>

-----------------------------------------------------------------------------
(* SpecCalc: compute_payroll applied to inputs drawn from bounded sets *)

CalcToday == <<2024, 6, 15>>

\* no date of birth; 44 years old; 60 today; 60 tomorrow; 60 later this year; 74
CalcBirths ==
    {NoDate, <<1980, 1, 1>>, <<1964, 6, 15>>, <<1964, 6, 16>>, <<1964, 7, 1>>, <<1950, 3, 1>>}

CalcBasics ==
    {Money(0 - 500), 0, 25, Money(1000), Money(130000) - 25, Money(130000),
     Money(130000) + 25, Money(150000)}
CalcOvertimes  == {0, 25}
CalcAllowances == {0, Money(10) + 25}
CalcHours      == {0, Money(2)}
CalcRates      == {0, Money(12) + 50}

CalcInit ==
    /\ today = CalcToday
    /\ employees = <<>>
    /\ payslips = <<>>
    /\ now = 0
    /\ IdleThreads
    /\ ytdq = NoYtd
    /\ \E d \in CalcBirths, b \in CalcBasics, o \in CalcOvertimes,
          a \in CalcAllowances, h \in CalcHours, r \in CalcRates :
          calc = [done |-> FALSE,
                  employee |-> [id |-> 1, employee_id_code |-> <<"E", "1">>, date_of_birth |-> d],
                  basic |-> b, overtime |-> o, allowances |-> a,
                  hours_worked |-> h, rate_per_hour |-> r,
                  out |-> [gross |-> 0, nis |-> 0, tax |-> 0, net |-> 0]]

CalcCompute ==
    /\ ~calc.done
    /\ calc' = [calc EXCEPT !.done = TRUE,
                            !.out = compute_payroll(calc.employee, calc.basic, calc.overtime,
                                                    calc.allowances, calc.hours_worked,
                                                    calc.rate_per_hour)]
    /\ UNCHANGED <<today, employees, payslips, now, threadVars, ytdq>>

CalcNext == CalcCompute

SpecCalc == CalcInit /\ [][CalcNext]_vars

\* gross = basic + overtime + allowances + hours_worked * rate_per_hour, in cents
CalcGrossIs(g) ==
    100 * g = 100 * (calc.basic + calc.overtime + calc.allowances)
              + calc.hours_worked * calc.rate_per_hour

\* today lies before the 60th birthday
CalcUnder60 ==
    LET b == calc.employee.date_of_birth
    IN  b # NoDate /\ ~DateLE(<<b[1] + 60, b[2], b[3]>>, today)

\* n (cents) is g * 0.056 rounded to two decimals, ties to even
IsRound2Of56(n, g) ==
    /\ 1000 * n - 56 * g <= 500
    /\ 56 * g - 1000 * n <= 500
    /\ (1000 * n - 56 * g \in {500, 0 - 500}) => n % 2 = 0

\* C1: the social-insurance deduction is round(gross * 0.056, 2) when the age is
\* known and below 60, and 0 when the age is 60 or more or unknown.
C1_NisByAge ==
    calc.done =>
        /\ CalcGrossIs(calc.out.gross)
        /\ IF CalcUnder60
           THEN IsRound2Of56(calc.out.nis, calc.out.gross)
           ELSE calc.out.nis = 0

\* C1 witness: an employee who turns 60 tomorrow is still charged, and rounding acted
C1_Witness ==
    /\ calc.done
    /\ calc.employee.date_of_birth = <<1964, 6, 16>>
    /\ calc.out.nis > 0
    /\ 1000 * calc.out.nis # 56 * calc.out.gross

\* C2: tax is 0 up to and including gross 130000 and (gross - 130000) * 0.28
\* above it, whatever the employee's age.
C2_TaxBracket ==
    calc.done =>
        /\ CalcGrossIs(calc.out.gross)
        /\ calc.out.gross <= 13000000 => calc.out.tax = 0
        /\ calc.out.gross > 13000000 =>
               100 * calc.out.tax = (calc.out.gross - 13000000) * 28

\* C2 witness: a gross just above the threshold is taxed, for an employee of unknown age
C2_Witness ==
    /\ calc.done
    /\ calc.employee.date_of_birth = NoDate
    /\ calc.out.gross = 13000025
    /\ calc.out.tax = 7

\* C3: net = gross - (social insurance + tax) with no floor at zero, and all-zero
\* inputs give all-zero outputs.
C3_NetNoFloor ==
    calc.done =>
        /\ CalcGrossIs(calc.out.gross)
        /\ calc.out.net + calc.out.nis + calc.out.tax = calc.out.gross
        /\ (calc.basic = 0 /\ calc.overtime = 0 /\ calc.allowances = 0
            /\ calc.hours_worked = 0 /\ calc.rate_per_hour = 0)
           => (calc.out.gross = 0 /\ calc.out.nis = 0 /\ calc.out.tax = 0 /\ calc.out.net = 0)

\* C3 witness: a negative net is returned as it is
C3_Witness ==
    /\ calc.done
    /\ calc.out.gross < 0
    /\ calc.out.net < 0

-----------------------------------------------------------------------------
(* Year-to-date aggregator *)

ZeroTotals ==
    [basic_pay |-> 0, overtime_pay |-> 0, allowances |-> 0, tax |-> 0, nis |-> 0,
     other_deductions |-> 0, net_pay |-> 0]

\* the three filter conditions of the query
InYtdWindow(s, employee_id, period_end) ==
    /\ s.employee_id = employee_id
    /\ DateLE(<<period_end[1], 1, 1>>, s.period_end)
    /\ DateLE(s.period_end, period_end)

\* the loop over the selected rows
RECURSIVE YtdLoop(_, _)
YtdLoop(slips, totals) ==
    IF slips = <<>> THEN totals
    ELSE LET s == Head(slips)
         IN  YtdLoop(Tail(slips),
                     [basic_pay        |-> totals.basic_pay + s.basic_pay,
                      overtime_pay     |-> totals.overtime_pay + s.overtime_pay,
                      allowances       |-> totals.allowances + s.allowances,
                      tax              |-> totals.tax + s.tax,
                      nis              |-> totals.nis + s.nis,
                      other_deductions |-> totals.other_deductions + s.other_deductions,
                      net_pay          |-> totals.net_pay + s.net_pay])

\* ytd_for_employee with the upper end of the window exclusive
ytd_for_employee_open(employee_id, period_end) ==
    YtdLoop(SelectSeq(payslips,
                      LAMBDA s : /\ InYtdWindow(s, employee_id, period_end)
                                 /\ s.period_end # period_end),
            ZeroTotals)

ytd_for_employee(employee_id, period_end) ==
    YtdLoop(SelectSeq(payslips, LAMBDA s : InYtdWindow(s, employee_id, period_end)),
            ZeroTotals)

-----------------------------------------------------------------------------
(* SpecYtd: ytd_for_employee applied to stores drawn from bounded sets *)

MaxSlips == 2

YtdEnds == {<<2023, 12, 31>>, <<2024, 1, 1>>, <<2024, 6, 30>>, <<2024, 7, 1>>, <<2025, 1, 1>>}

YtdAmounts ==
    {[basic_pay |-> Money(100), overtime_pay |-> Money(20), allowances |-> Money(3),
      tax |-> Money(4), nis |-> Money(5), other_deductions |-> Money(6), net_pay |-> Money(7)],
     [basic_pay |-> Money(1000), overtime_pay |-> Money(200), allowances |-> Money(30),
      tax |-> Money(40), nis |-> Money(50), other_deductions |-> Money(60),
      net_pay |-> Money(0 - 70)]}

YtdRows ==
    {[employee_id |-> e, period_start |-> <<pe[1], pe[2], 1>>, period_end |-> pe,
      basic_pay |-> a.basic_pay, overtime_pay |-> a.overtime_pay, allowances |-> a.allowances,
      tax |-> a.tax, nis |-> a.nis, other_deductions |-> a.other_deductions,
      net_pay |-> a.net_pay, hours_worked |-> 0, rate_per_hour |-> 0,
      created_by |-> 1, created_at |-> 0] : e \in {1, 2}, pe \in YtdEnds, a \in YtdAmounts}

YtdInit ==
    /\ today = CalcToday
    /\ employees = <<>>
    /\ \E n \in 0..MaxSlips : payslips \in [1..n -> YtdRows]
    /\ now = 0
    /\ IdleThreads
    /\ calc = NoCalc
    /\ \E e \in {1, 2}, pe \in {<<2023, 12, 31>>, <<2024, 1, 1>>, <<2024, 6, 30>>} :
          ytdq = [done |-> FALSE, employee_id |-> e, period_end |-> pe, out |-> ZeroTotals]

YtdCall ==
    /\ ~ytdq.done
    /\ ytdq' = [ytdq EXCEPT !.done = TRUE,
                            !.out = ytd_for_employee(ytdq.employee_id, ytdq.period_end)]
    /\ UNCHANGED <<today, employees, payslips, now, threadVars, calc>>

YtdNext == YtdCall

SpecYtd == YtdInit /\ [][YtdNext]_vars

\* the payslips the claim names: of the employee, ending in the year of
\* period_end and not after period_end
YtdMembers(store, employee_id, period_end) ==
    {i \in DOMAIN store :
        /\ store[i].employee_id = employee_id
        /\ store[i].period_end[1] = period_end[1]
        /\ DateLE(store[i].period_end, period_end)}

RECURSIVE SumField(_, _, _)
SumField(store, ids, f) ==
    IF ids = {} THEN 0
    ELSE LET i == CHOOSE j \in ids : TRUE
         IN  store[i][f] + SumField(store, ids \ {i}, f)

YtdFields ==
    {"basic_pay", "overtime_pay", "allowances", "tax", "nis", "other_deductions", "net_pay"}

\* C4: each year-to-date total is the sum of that field over exactly the
\* employee's payslips ending in [January 1 of the year, period_end]; totals are
\* 0 when the window is empty; the store is left unchanged.
C4_YtdWindowSums ==
    [][YtdCall =>
        /\ payslips' = payslips
        /\ DOMAIN ytdq'.out = YtdFields
        /\ \A f \in YtdFields :
              ytdq'.out[f] =
                  SumField(payslips, YtdMembers(payslips, ytdq.employee_id, ytdq.period_end), f)
        /\ YtdMembers(payslips, ytdq.employee_id, ytdq.period_end) = {}
              => ytdq'.out = ZeroTotals]_vars

\* C4 witness: one payslip ending on the query date itself is counted, one of
\* the year before is not
C4_Witness ==
    /\ ytdq.done
    /\ ytdq.period_end = <<2024, 6, 30>>
    /\ Len(payslips) = 2
    /\ payslips[1].employee_id = ytdq.employee_id
    /\ payslips[1].period_end = <<2024, 6, 30>>
    /\ payslips[2].employee_id = ytdq.employee_id
    /\ payslips[2].period_end = <<2023, 12, 31>>
    /\ ytdq.out.basic_pay = payslips[1].basic_pay
    /\ ytdq.out.net_pay = payslips[1].net_pay

-----------------------------------------------------------------------------
(* The texts drawn as form values *)

TxtJan01 == <<"2", "0", "2", "4", "-", "0", "1", "-", "0", "1">>
TxtMar01 == <<"2", "0", "2", "4", "-", "0", "3", "-", "0", "1">>
TxtFeb30 == <<"2", "0", "2", "4", "-", "0", "2", "-", "3", "0">>
TxtJan31 == <<"2", "0", "2", "4", "-", "0", "1", "-", "3", "1">>
TxtJan31Short == <<"2", "0", "2", "4", "-", "1", "-", "3", "1">>
TxtDob == <<"1", "9", "9", "0", "-", "5", "-", "1", "7">>
TxtDobBad == <<"1", "9", "9", "0", "-", "1", "3", "-", "0", "1">>
Txt1000 == <<"1", "0", "0", "0">>
TxtAbc == <<"a", "b", "c">>
Txt2 == <<"2">>
Txt12_50 == <<"1", "2", ".", "5", "0">>
Txt150000 == <<"1", "5", "0", "0", "0", "0">>
Txt0_25 == <<"0", ".", "2", "5">>
Txt0 == <<"0">>
TxtNA == <<"n", "/", "a">>
TxtMinus5 == <<"-", "5">>
Txt7_25 == <<"7", ".", "2", "5">>
Txt56 == <<"5", "6">>
Txt10 == <<"1", "0">>
Txt900 == <<"9", "0", "0">>

\* the texts drawn
Texts ==
    {TxtJan01, TxtMar01, TxtFeb30, TxtJan31, TxtJan31Short, TxtDob, TxtDobBad, Txt1000,
     TxtAbc, Txt2, Txt12_50, Txt150000, Txt0_25, Txt0, TxtNA, TxtMinus5, Txt7_25, Txt56,
     Txt10, Txt900}

\* float(text) and date.fromisoformat(text) of each text drawn
FloatOf == [t \in Texts |-> ParseFloatText(t)]
IsoOf == [t \in Texts |-> fromisoformat(t)]

\* parse_float(form, name): float(form.get(name, 0) or 0), 0 on any exception
parse_float(form, name) ==
    IF name \notin DOMAIN form \/ form[name] = <<>> THEN 0
    ELSE LET r == FloatOf[form[name]] IN IF r.ok THEN r.val ELSE 0

-----------------------------------------------------------------------------
(* Request handlers *)

MaxRequests == 2
MaxPayslips == 1

Methods == {"GET", "POST"}
Users == {1, 2}

\* Python's None for a text column
NoText == <<"None">>

\* the form of a request that carries none
NoForm == [none |-> <<>>]

\* request.form.get(name)
FormGet(form, name) == IF name \in DOMAIN form THEN form[name] ELSE NoText

\* the texts drawn that are ISO 8601 calendar dates
IsoCalendarDates == {TxtJan01, TxtMar01, TxtJan31}

WellFormedDates(form) ==
    \A k \in {"period_start", "period_end"} : k \in DOMAIN form /\ form[k] \in IsoCalendarDates

WithoutKey(form, k) == [x \in DOMAIN form \ {k} |-> form[x]]

Respond(w, status) == res' = [res EXCEPT ![w] = [status |-> status]]

\* The idle threads of the pool are interchangeable: the lowest one serves.
\* req[w].dates_ok records, for the properties, whether the form carried two
\* well-formed period dates.
Accept(w, op, method, id, form) ==
    /\ pc[w] = "idle"
    /\ \A v \in Workers : pc[v] = "idle" => w <= v
    /\ nreq < MaxRequests
    /\ nreq' = nreq + 1
    /\ req' = [req EXCEPT ![w] = [op |-> op, method |-> method, id |-> id,
                                  dates_ok |-> WellFormedDates(form)]]

\* get_or_404 with the form processed before the row is looked up
handler_outcome_form_first(found, method, status) ==
    IF method = "POST" /\ status # "dirty" THEN status
    ELSE IF ~found THEN "not_found"
    ELSE IF method = "GET" THEN "ok"
    ELSE status

\* The order of a handler: Model.query.get_or_404(id) first, then the test of
\* request.method, then the processing of the form (status)
handler_outcome(found, method, status) ==
    IF ~found THEN "not_found"
    ELSE IF method = "GET" THEN "ok"
    ELSE status

\* teardown of a request: db.session is removed, whatever it held is dropped
EndRequest(w) ==
    /\ pc' = [pc EXCEPT ![w] = "idle"]
    /\ sess' = [sess EXCEPT ![w] = NoRow]
    /\ overlap' = [overlap EXCEPT ![w] = <<>>]

Hold(w, row) ==
    /\ pc' = [pc EXCEPT ![w] = "dirty"]
    /\ sess' = [sess EXCEPT ![w] = row]
    /\ res' = [res EXCEPT ![w] = NoRes]
    /\ overlap' = [overlap EXCEPT ![w] = <<>>]

\* the columns an UPDATE writes at commit, written as whole-row overwrite
CommitRowWhole(stored, orig, cur) == cur

\* db.session.commit() of a loaded row: the UPDATE sets the columns whose
\* value differs from the value loaded, and leaves the others as stored
CommitRow(stored, orig, cur) ==
    [f \in DOMAIN stored |-> IF cur[f] # orig[f] THEN cur[f] ELSE stored[f]]

-----------------------------------------------------------------------------
(* Employee handlers *)

RequiredEmployeeKeys ==
    {"employee_id_code", "first_name", "last_name", "department", "position", "email"}

CodeE1 == <<"E", "1">>
CodeE2 == <<"E", "2">>
CodeE3 == <<"E", "3">>

FullEmployeeForm(code, dob) ==
    [employee_id_code |-> code, first_name |-> <<"A">>, last_name |-> <<"B">>,
     department |-> <<"C">>, position |-> <<"D">>, email |-> <<"E">>,
     date_of_birth |-> dob]

EmployeeForms ==
    {FullEmployeeForm(c, d) :
        c \in {CodeE1, CodeE2, CodeE3},
        d \in {<<>>, TxtDob, TxtDobBad}}
    \cup {WithoutKey(FullEmployeeForm(CodeE3, <<>>), k) :
            k \in {"employee_id_code", "email", "date_of_birth"}}

\* the unique index on employee.employee_id_code: NULLs never collide
CodeTaken(code, except) ==
    /\ code # NoText
    /\ \E j \in DOMAIN employees : j # except /\ employees[j].employee_id_code = code

\* employee_new, POST (lines 204-218): the status of the response
employee_new_post(form) ==
    IF ~(RequiredEmployeeKeys \subseteq DOMAIN form)
    THEN "bad_request"      \* request.form[...] of a missing key
    ELSE "name_error"       \* line 215 reads dob, a name bound nowhere

EmployeeNew(w, method, form) ==
    /\ Accept(w, "employee_new", method, 0, form)
    /\ Respond(w, IF method = "GET" THEN "ok" ELSE employee_new_post(form))
    /\ UNCHANGED <<today, employees, payslips, now, pc, sess, overlap, calc, ytdq>>

\* edit_employee, POST (lines 65-79): the row after the assignments
edit_employee_post(emp, form) ==
    LET assigned == [emp EXCEPT !.employee_id_code = FormGet(form, "employee_id_code"),
                                !.last_name = FormGet(form, "last_name")]
        dob_str  == FormGet(form, "date_of_birth")
    IN  IF dob_str = NoText \/ dob_str = <<>>
        THEN [status |-> "dirty", row |-> assigned]
        ELSE LET r == strptime(dob_str)
             IN  IF ~r.ok
                 THEN [status |-> "value_error", row |-> assigned]
                 ELSE [status |-> "dirty",
                       row |-> [assigned EXCEPT !.date_of_birth = r.val]]

EditEmployee(w, emp_id, method, form) ==
    /\ Accept(w, "edit_employee", method, emp_id, form)
    /\ LET found == emp_id \in DOMAIN employees
           emp   == IF found THEN employees[emp_id] ELSE NoRow
           r     == edit_employee_post(emp, form)
           out   == handler_outcome(found, method, r.status)
       IN  IF out = "dirty"
           THEN Hold(w, [kind |-> "employee", id |-> emp_id, orig |-> emp, cur |-> r.row])
           ELSE Respond(w, out) /\ EndRequest(w)
    /\ UNCHANGED <<today, employees, payslips, now, calc, ytdq>>

CommitEmployee(w) ==
    /\ pc[w] = "dirty"
    /\ sess[w].kind = "employee"
    /\ LET id == sess[w].id
           o  == sess[w].orig
           c  == sess[w].cur
       IN  IF c.employee_id_code # o.employee_id_code /\ CodeTaken(c.employee_id_code, id)
           THEN /\ Respond(w, "integrity_error")
                /\ UNCHANGED employees
           ELSE /\ Respond(w, "ok")
                /\ employees' = [employees EXCEPT ![id] = CommitRow(employees[id], o, c)]
    /\ EndRequest(w)
    /\ UNCHANGED <<today, payslips, now, req, nreq, calc, ytdq>>

-----------------------------------------------------------------------------
(* Payslip handlers *)

\* the five raw pay figures of a form: two submissions
RawHourly ==
    [basic_pay |-> Txt1000, allowances |-> TxtAbc, hours_worked |-> Txt2,
     rate_per_hour |-> Txt12_50]
RawSalaried == [basic_pay |-> Txt150000, overtime_pay |-> Txt0_25, allowances |-> <<>>]
RawParts == {RawHourly, RawSalaried}

\* the four derived figures of an edit form: two submissions
DerivedSparse == [tax |-> Txt0, other_deductions |-> TxtNA, net_pay |-> TxtMinus5]
DerivedFull ==
    [tax |-> Txt7_25, nis |-> Txt56, other_deductions |-> Txt10, net_pay |-> Txt900]
DerivedParts == {DerivedSparse, DerivedFull}

\* the two period dates of a form: well formed, start after end, malformed, missing
DatesJanuary == [period_start |-> TxtJan01, period_end |-> TxtJan31]
DateParts ==
    {DatesJanuary,
     [period_start |-> TxtMar01, period_end |-> TxtJan31],
     [period_start |-> TxtFeb30, period_end |-> TxtJan31],
     [period_start |-> TxtJan01, period_end |-> TxtJan31Short],
     [period_end |-> TxtJan31],
     [period_start |-> TxtJan01]}

\* The forms drawn: every submission of figures with the dates of January, and
\* one submission of figures with each of the other date parts.
NewForms ==
    {r @@ DatesJanuary : r \in RawParts} \cup {RawHourly @@ d : d \in DateParts}
EditForms ==
    {r @@ x @@ DatesJanuary : r \in RawParts, x \in DerivedParts}
    \cup {RawSalaried @@ DerivedFull @@ d : d \in DateParts}

\* date.fromisoformat(request.form[name]) as the handlers use it:
\* a missing key is a 400, a malformed text raises ValueError
FormDate(form, name) ==
    IF name \notin DOMAIN form THEN [status |-> "bad_request"]
    ELSE LET r == IsoOf[form[name]]
         IN  IF ~r.ok THEN [status |-> "value_error"] ELSE [status |-> "ok", val |-> r.val]

\* the two period dates of a form (lines 242-243, 277-279): the failure of the
\* first that fails, or the two dates
form_dates(form) ==
    LET ps == FormDate(form, "period_start")
        pe == FormDate(form, "period_end")
    IN  IF ps.status # "ok" THEN [status |-> ps.status]
        ELSE IF pe.status # "ok" THEN [status |-> pe.status]
        ELSE [status |-> "dirty", period_start |-> ps.val, period_end |-> pe.val]

\* payslip_new, POST (lines 227-254): the Payslip built from a form whose
\* period dates parse
payslip_new_post(employee, employee_id, form, user) ==
    LET basic         == parse_float(form, "basic_pay")
        overtime      == parse_float(form, "overtime_pay")
        allowances    == parse_float(form, "allowances")
        hours_worked  == parse_float(form, "hours_worked")
        rate_per_hour == parse_float(form, "rate_per_hour")
        c == compute_payroll(employee, basic, overtime, allowances, hours_worked, rate_per_hour)
        d == form_dates(form)
    IN  [employee_id |-> employee_id,
         period_start |-> d.period_start, period_end |-> d.period_end,
         basic_pay |-> basic, overtime_pay |-> overtime,
         allowances |-> allowances, tax |-> c.tax, nis |-> c.nis,
         other_deductions |-> 0, net_pay |-> c.net,
         hours_worked |-> hours_worked, rate_per_hour |-> rate_per_hour,
         created_by |-> user, created_at |-> 0]

\* payslips being created by requests in flight
PendingNew == Cardinality({v \in Workers : pc[v] = "dirty" /\ sess[v].kind = "payslip_new"})

PayslipNew(w, employee_id, method, form, user) ==
    /\ Accept(w, "payslip_new", method, employee_id, form)
    /\ LET found    == employee_id \in DOMAIN employees
           employee == IF found THEN employees[employee_id] ELSE NoRow
           out      == handler_outcome(found, method, form_dates(form).status)
       IN  IF out = "dirty"
           THEN /\ Len(payslips) + PendingNew < MaxPayslips
                /\ Hold(w, [kind |-> "payslip_new", id |-> 0, orig |-> NoRow,
                            cur |-> payslip_new_post(employee, employee_id, form, user)])
           ELSE Respond(w, out) /\ EndRequest(w)
    /\ UNCHANGED <<today, employees, payslips, now, calc, ytdq>>

\* db.session.add(p); db.session.commit() (lines 255-256)
CommitPayslipNew(w) ==
    /\ pc[w] = "dirty"
    /\ sess[w].kind = "payslip_new"
    /\ payslips' = Append(payslips, [sess[w].cur EXCEPT !.created_at = now])
    /\ now' = now + 1
    /\ Respond(w, "ok")
    /\ EndRequest(w)
    /\ UNCHANGED <<today, employees, req, nreq, calc, ytdq>>

\* edit_payslip with the derived figures recomputed from the edited inputs
edit_payslip_recompute(payslip, form) ==
    LET c == compute_payroll(employees[payslip.employee_id],
                             parse_float(form, "basic_pay"), parse_float(form, "overtime_pay"),
                             parse_float(form, "allowances"), parse_float(form, "hours_worked"),
                             parse_float(form, "rate_per_hour"))
    IN  [payslip EXCEPT !.basic_pay = parse_float(form, "basic_pay"),
                        !.overtime_pay = parse_float(form, "overtime_pay"),
                        !.allowances = parse_float(form, "allowances"),
                        !.hours_worked = parse_float(form, "hours_worked"),
                        !.rate_per_hour = parse_float(form, "rate_per_hour"),
                        !.tax = c.tax,
                        !.nis = c.nis,
                        !.other_deductions = parse_float(form, "other_deductions"),
                        !.net_pay = c.net]

\* edit_payslip, POST (lines 267-275): the row after the nine assignments
edit_payslip_assign(payslip, form) ==
    [payslip EXCEPT !.basic_pay = parse_float(form, "basic_pay"),
                    !.overtime_pay = parse_float(form, "overtime_pay"),
                    !.allowances = parse_float(form, "allowances"),
                    !.hours_worked = parse_float(form, "hours_worked"),
                    !.rate_per_hour = parse_float(form, "rate_per_hour"),
                    !.tax = parse_float(form, "tax"),
                    !.nis = parse_float(form, "nis"),
                    !.other_deductions = parse_float(form, "other_deductions"),
                    !.net_pay = parse_float(form, "net_pay")]

\* edit_payslip, POST (lines 267-279): the row held by the session after the
\* assignments, for a form whose period dates parse
edit_payslip_post(payslip, form) ==
    [edit_payslip_assign(payslip, form) EXCEPT !.period_start = form_dates(form).period_start,
                                               !.period_end = form_dates(form).period_end]

EditPayslip(w, payslip_id, method, form) ==
    /\ Accept(w, "edit_payslip", method, payslip_id, form)
    /\ LET found   == payslip_id \in DOMAIN payslips
           payslip == IF found THEN payslips[payslip_id] ELSE NoRow
           out     == handler_outcome(found, method, form_dates(form).status)
       IN  IF out = "dirty"
           THEN Hold(w, [kind |-> "payslip_edit", id |-> payslip_id,
                         orig |-> payslip, cur |-> edit_payslip_post(payslip, form)])
           ELSE Respond(w, out) /\ EndRequest(w)
    /\ UNCHANGED <<today, employees, payslips, now, calc, ytdq>>

\* the columns edit_payslip assigns
EditableFields ==
    {"period_start", "period_end", "basic_pay", "overtime_pay", "allowances",
     "hours_worked", "rate_per_hour", "tax", "nis", "other_deductions", "net_pay"}

\* db.session.commit() (line 281).  The response records, for the properties,
\* how many edits of the same payslip were committed since this one loaded it
\* (raced), which columns its UPDATE set (written) and which columns do not
\* hold what this edit submitted (stale).
CommitPayslipEdit(w) ==
    /\ pc[w] = "dirty"
    /\ sess[w].kind = "payslip_edit"
    /\ payslips' = [payslips EXCEPT ![sess[w].id] =
                        CommitRow(payslips[sess[w].id], sess[w].orig, sess[w].cur)]
    /\ res' = [res EXCEPT ![w] =
                  [status |-> "ok",
                   raced |-> Len(overlap[w]),
                   written |-> {f \in EditableFields : sess[w].cur[f] # sess[w].orig[f]},
                   stale |-> {f \in EditableFields :
                                 payslips'[sess[w].id][f] # sess[w].cur[f]}]]
    /\ pc' = [pc EXCEPT ![w] = "idle"]
    /\ sess' = [sess EXCEPT ![w] = NoRow]
    /\ overlap' = [v \in Workers |->
                      IF v = w THEN <<>>
                      ELSE IF pc[v] = "dirty" /\ sess[v].kind = "payslip_edit"
                              /\ sess[v].id = sess[w].id
                      THEN Append(overlap[v], [cur |-> sess[w].cur, raced |-> Len(overlap[w])])
                      ELSE overlap[v]]
    /\ UNCHANGED <<today, employees, now, req, nreq, calc, ytdq>>

\* payslip_view and payslip_pdf: Payslip.query.get_or_404 (lines 292, 299)
PayslipView(w, op, payslip_id) ==
    /\ Accept(w, op, "GET", payslip_id, NoForm)
    /\ IF handler_outcome(payslip_id \in DOMAIN payslips, "GET", "ok") = "not_found"
       THEN Respond(w, "not_found") /\ EndRequest(w)
       ELSE /\ pc' = [pc EXCEPT ![w] = "loaded"]
            /\ sess' = [sess EXCEPT ![w] = [kind |-> "view", id |-> payslip_id,
                                            orig |-> payslips[payslip_id]]]
            /\ res' = [res EXCEPT ![w] = NoRes]
            /\ overlap' = [overlap EXCEPT ![w] = <<>>]
    /\ UNCHANGED <<today, employees, payslips, now, calc, ytdq>>

\* the year-to-date query and the rendering (lines 293-294, 300-312)
PayslipRender(w) ==
    /\ pc[w] = "loaded"
    /\ res' = [res EXCEPT ![w] =
                  [status |-> "ok",
                   ytd |-> ytd_for_employee(sess[w].orig.employee_id, sess[w].orig.period_end)]]
    /\ EndRequest(w)
    /\ UNCHANGED <<today, employees, payslips, now, req, nreq, calc, ytdq>>

-----------------------------------------------------------------------------
(* Spec: the request threads over the record store *)

SeedEmployees ==
    <<[employee_id_code |-> CodeE1, last_name |-> <<"B">>, date_of_birth |-> <<1980, 1, 1>>],
      [employee_id_code |-> CodeE2, last_name |-> <<"B">>, date_of_birth |-> NoDate]>>

\* The database outlives the process: it holds two employees (employee_new
\* cannot add one, see employee_new_post) and either no payslip or the one
\* payslip_new stores for employee 1 from SeedForm.
SeedForm ==
    [basic_pay |-> Txt1000, hours_worked |-> Txt2, rate_per_hour |-> Txt12_50,
     period_start |-> TxtJan01, period_end |-> TxtJan31]

Init ==
    /\ today = CalcToday
    /\ employees = SeedEmployees
    /\ \/ payslips = <<>> /\ now = 0
       \/ /\ payslips = <<payslip_new_post(employees[1], 1, SeedForm, 1)>>
          /\ now = 1
    /\ IdleThreads
    /\ calc = NoCalc
    /\ ytdq = NoYtd

EmployeeIds == 1..3
PayslipIds == 1..(MaxPayslips + 1)

FormsFor(m, forms) == IF m = "GET" THEN {NoForm} ELSE forms

DoEmployeeNew ==
    \E w \in Workers, m \in Methods : \E f \in FormsFor(m, EmployeeForms) : EmployeeNew(w, m, f)
DoEditEmployee ==
    \E w \in Workers, i \in EmployeeIds, m \in Methods :
        \E f \in FormsFor(m, EmployeeForms) : EditEmployee(w, i, m, f)
DoCommitEmployee == \E w \in Workers : CommitEmployee(w)
DoPayslipNew ==
    \E w \in Workers, i \in EmployeeIds, m \in Methods, u \in Users :
        \E f \in FormsFor(m, NewForms) : PayslipNew(w, i, m, f, u)
DoCommitPayslipNew == \E w \in Workers : CommitPayslipNew(w)
DoEditPayslip ==
    \E w \in Workers, i \in PayslipIds, m \in Methods :
        \E f \in FormsFor(m, EditForms) : EditPayslip(w, i, m, f)
DoCommitPayslipEdit == \E w \in Workers : CommitPayslipEdit(w)
DoPayslipView ==
    \E w \in Workers, op \in {"payslip_view", "payslip_pdf"}, i \in PayslipIds :
        PayslipView(w, op, i)
DoPayslipRender == \E w \in Workers : PayslipRender(w)

\* The payslip handlers.  They never write the employee table.
Next ==
    \/ DoPayslipNew
    \/ DoCommitPayslipNew
    \/ DoEditPayslip
    \/ DoCommitPayslipEdit
    \/ DoPayslipView
    \/ DoPayslipRender

Spec == Init /\ [][Next]_vars

\* The employee handlers.  They never read or write the payslip table.
EmpNext == DoEmployeeNew \/ DoEditEmployee \/ DoCommitEmployee

SpecEmp == Init /\ [][EmpNext]_vars

-----------------------------------------------------------------------------
(* Properties of the employee handlers, under SpecEmp *)

UniqueCodes ==
    \A i, j \in DOMAIN employees :
        i # j => employees[i].employee_id_code # employees[j].employee_id_code

\* C5: no two stored employees share a code; creating an employee with a code
\* already in use is rejected with an integrity failure and adds no record; an
\* edit to a code held by another employee is rejected and changes nothing.
C5_UniqueEmployeeCode ==
    [][/\ UniqueCodes'
       /\ \A w \in Workers, f \in EmployeeForms :
             (/\ EmployeeNew(w, "POST", f)
              /\ RequiredEmployeeKeys \subseteq DOMAIN f
              /\ CodeTaken(f.employee_id_code, 0))
             => (res'[w].status = "integrity_error" /\ employees' = employees)
       /\ \A w \in Workers :
             (/\ CommitEmployee(w)
              /\ sess[w].cur.employee_id_code # sess[w].orig.employee_id_code
              /\ CodeTaken(sess[w].cur.employee_id_code, sess[w].id))
             => (res'[w].status = "integrity_error" /\ employees' = employees)]_vars

-----------------------------------------------------------------------------
(* Properties of the payslip handlers, under Spec *)

ValidationFailures == {"bad_request", "value_error"}

\* a period date is present and is not an ISO 8601 calendar date
MalformedDate(form) ==
    \E k \in {"period_start", "period_end"} :
        k \in DOMAIN form /\ form[k] \notin IsoCalendarDates

\* the request of thread w ended without a session and without a write
Rejected(w) ==
    /\ payslips' = payslips
    /\ employees' = employees
    /\ pc'[w] = "idle"
    /\ sess'[w] = NoRow

\* C6: a creation or an edit of a payslip with a malformed period date fails
\* as a validation failure, no date is made up for it, and the stored payslips
\* are what they were: no new payslip, no field of the edited payslip changed.
C6_MalformedDateRejected ==
    [][/\ \A w \in Workers, i \in DOMAIN employees, f \in NewForms, u \in Users :
             (PayslipNew(w, i, "POST", f, u) /\ MalformedDate(f))
             => (res'[w].status \in ValidationFailures /\ Rejected(w))
       /\ \A w \in Workers, i \in DOMAIN payslips, f \in EditForms :
             (EditPayslip(w, i, "POST", f) /\ MalformedDate(f))
             => (res'[w].status \in ValidationFailures /\ Rejected(w))]_vars

\* C6 witness: an edit of a stored payslip has failed on its date, and the
\* payslip is the one stored before
C6_Witness ==
    \E w \in Workers :
        /\ req[w].op = "edit_payslip" /\ req[w].method = "POST"
        /\ req[w].id \in DOMAIN payslips
        /\ ~req[w].dates_ok
        /\ pc[w] = "idle"
        /\ res[w].status = "value_error"
        /\ payslips[1] = payslip_new_post(employees[1], 1, SeedForm, 1)

\* C7: every stored payslip has period_start <= period_end.
C7_StartNotAfterEnd ==
    \A i \in DOMAIN payslips : DateLE(payslips[i].period_start, payslips[i].period_end)

DerivedFields == {"tax", "nis", "other_deductions", "net_pay"}

\* the number a drawn text denotes, 0 for a text that denotes none
NumberOf(t) ==
    CASE t = Txt0 -> 0
      [] t = Txt7_25 -> 725
      [] t = Txt56 -> 5600
      [] t = Txt10 -> 1000
      [] t = Txt900 -> 90000
      [] t = TxtMinus5 -> 0 - 500
      [] t = Txt1000 -> 100000
      [] t = Txt2 -> 200
      [] t = Txt12_50 -> 1250
      [] t = Txt150000 -> 15000000
      [] t = Txt0_25 -> 25
      [] OTHER -> 0

\* the value an edit submits for a field: 0 when absent or not a number
Submitted(form, k) == IF k \in DOMAIN form THEN NumberOf(form[k]) ELSE 0

\* an accepted edit holds the submitted figures as they are, and the owner,
\* the creator and the creation time of the loaded row
EditHoldsSubmitted(w, i, f) ==
    /\ pc'[w] = "dirty"
    /\ payslips' = payslips
    /\ \A k \in EditableFields \ {"period_start", "period_end"} :
          sess'[w].cur[k] = Submitted(f, k)
    /\ sess'[w].cur.employee_id = payslips[i].employee_id
    /\ sess'[w].cur.created_by = payslips[i].created_by
    /\ sess'[w].cur.created_at = payslips[i].created_at

\* the commit of an edit leaves the other rows, and the owner, the creator and
\* the creation time of its row, as they are
EditFrame(w) ==
    LET id == sess[w].id
    IN  /\ res'[w].status = "ok"
        /\ DOMAIN payslips' = DOMAIN payslips
        /\ \A j \in DOMAIN payslips : j # id => payslips'[j] = payslips[j]
        /\ payslips'[id].employee_id = payslips[id].employee_id
        /\ payslips'[id].created_by = payslips[id].created_by
        /\ payslips'[id].created_at = payslips[id].created_at

\* C8 as stated: after a successful edit the stored tax, social-insurance
\* deduction, other deductions and net pay equal the submitted values (0 for
\* an absent or non-numeric one), and owner, creator and creation time are
\* unchanged.
C8_EditStoresSubmitted ==
    [][/\ \A w \in Workers, i \in DOMAIN payslips, f \in EditForms :
             (EditPayslip(w, i, "POST", f) /\ WellFormedDates(f)) => EditHoldsSubmitted(w, i, f)
       /\ \A w \in Workers :
             CommitPayslipEdit(w) =>
                 /\ EditFrame(w)
                 /\ \A k \in DerivedFields : payslips'[sess[w].id][k] = sess[w].cur[k]]_vars

\* C8 as amended: the commit stores a submitted derived value when it differs
\* from the value the edit loaded and leaves the field as stored otherwise; with
\* no other edit of the payslip committed since the load, the stored values are
\* the submitted ones.  The calculator is never run.
C8_EditStoresChanged ==
    [][/\ \A w \in Workers, i \in DOMAIN payslips, f \in EditForms :
             (EditPayslip(w, i, "POST", f) /\ WellFormedDates(f)) => EditHoldsSubmitted(w, i, f)
       /\ \A w \in Workers :
             CommitPayslipEdit(w) =>
                 /\ EditFrame(w)
                 /\ \A k \in DerivedFields :
                       payslips'[sess[w].id][k] =
                           IF sess[w].cur[k] # sess[w].orig[k]
                           THEN sess[w].cur[k] ELSE payslips[sess[w].id][k]
                 /\ Len(overlap[w]) = 0 =>
                       \A k \in DerivedFields : payslips'[sess[w].id][k] = sess[w].cur[k]]_vars

\* C8 witness: after a successful edit the stored tax, deduction and net pay are
\* not what compute_payroll gives for the stored inputs
C8_Witness ==
    \E w \in Workers :
        /\ req[w].op = "edit_payslip" /\ req[w].method = "POST"
        /\ pc[w] = "idle"
        /\ res[w].status = "ok"
        /\ res[w].raced = 0
        /\ LET p == payslips[req[w].id]
               c == compute_payroll(employees[p.employee_id], p.basic_pay, p.overtime_pay,
                                    p.allowances, p.hours_worked, p.rate_per_hour)
           IN  p.tax # c.tax /\ p.nis # c.nis /\ p.net_pay # c.net

\* thread w commits an edit of a payslip that exactly one other edit, itself
\* not raced, has committed to since w loaded it
SecondOfTwo(w) ==
    /\ CommitPayslipEdit(w)
    /\ Len(overlap[w]) = 1
    /\ overlap[w][1].raced = 0

\* C9 as stated: of two overlapping edits both succeed, and every editable
\* field then holds the value submitted by the edit that committed last.
C9_LastWriteWinsWhole ==
    [][\A w \in Workers :
          SecondOfTwo(w) =>
              /\ res'[w].status = "ok"
              /\ \A k \in EditableFields : payslips'[sess[w].id][k] = sess[w].cur[k]]_vars

\* C9 as amended: both succeed, and every editable field holds the value
\* submitted by the edit that committed last when that value differs from the
\* one it loaded, and the value submitted by the edit that committed first
\* otherwise.
C9_LastWriteWinsPerField ==
    [][\A w \in Workers :
          SecondOfTwo(w) =>
              /\ res'[w].status = "ok"
              /\ \A k \in EditableFields :
                    payslips'[sess[w].id][k] =
                        IF sess[w].cur[k] # sess[w].orig[k]
                        THEN sess[w].cur[k] ELSE overlap[w][1].cur[k]]_vars

\* C9 witness: the second of two overlapping edits has committed; some fields
\* hold what it submitted and some do not
C9_Witness ==
    \E w \in Workers :
        /\ req[w].op = "edit_payslip" /\ req[w].method = "POST"
        /\ pc[w] = "idle"
        /\ res[w].status = "ok"
        /\ res[w].raced = 1
        /\ res[w].written # {}
        /\ res[w].stale # {}

Owned == \A i \in DOMAIN payslips : payslips[i].employee_id \in DOMAIN employees

\* C10: a creation for an unknown employee and a view, edit or PDF of an
\* unknown payslip fail as not found, whatever the form holds, and store
\* nothing; every stored payslip is owned by a stored employee.
C10_NotFoundFirst ==
    /\ []Owned
    /\ [][/\ \A w \in Workers, i \in EmployeeIds \ DOMAIN employees, m \in Methods, u \in Users :
                \A f \in FormsFor(m, NewForms) :
                    PayslipNew(w, i, m, f, u)
                    => (res'[w].status = "not_found" /\ Rejected(w))
          /\ \A w \in Workers, i \in PayslipIds \ DOMAIN payslips, m \in Methods :
                \A f \in FormsFor(m, EditForms) :
                    EditPayslip(w, i, m, f)
                    => (res'[w].status = "not_found" /\ Rejected(w))
          /\ \A w \in Workers, op \in {"payslip_view", "payslip_pdf"},
                i \in PayslipIds \ DOMAIN payslips :
                    PayslipView(w, op, i)
                    => (res'[w].status = "not_found" /\ Rejected(w))]_vars

\* C10 witness: a creation for an unknown employee with a malformed form has
\* been answered not found, beside a stored payslip
C10_Witness ==
    \E w \in Workers :
        /\ req[w].op = "payslip_new" /\ req[w].method = "POST"
        /\ req[w].id \notin DOMAIN employees
        /\ ~req[w].dates_ok
        /\ pc[w] = "idle"
        /\ res[w].status = "not_found"
        /\ payslips # <<>>

====
